---- MODULE Spec2Model ----
(***************************************************************************)
(* Model of the asynchronous port scanner                                  *)
(* (Cybersecurity/async-port-scanner/scanner.py).                          *)
(*                                                                         *)
(* Text is a sequence of one-character strings.  Python's None is the      *)
(* value None.  Two specifications are given:                              *)
(*   SpecResolve : main() from parse_args up to the decision to scan       *)
(*                 (build_port_list, parse_port_spec, the empty check);    *)
(*   Spec        : run_scan, i.e. the probe_port coroutines interleaved    *)
(*                 by the event loop under the semaphore, and gather.      *)
(***************************************************************************)
EXTENDS Integers, Sequences, FiniteSets, TLC

\* None is a one-element tuple no text (a sequence of single characters) equals
None == <<"None">>

\* ---------------------------------------------------------------- bounds
MaxTokens == 2
MaxPorts == 3
MaxConcurrency == 2
MaxRaw == 3

\* ------------------------------------------------------- text primitives
Whitespace == {" ", "\t", "\r", "\n"}
Digits == {"0", "1", "2", "3", "4", "5", "6", "7", "8", "9"}

DigitVal(c) ==
    CASE c = "0" -> 0 [] c = "1" -> 1 [] c = "2" -> 2 [] c = "3" -> 3
      [] c = "4" -> 4 [] c = "5" -> 5 [] c = "6" -> 6 [] c = "7" -> 7
      [] c = "8" -> 8 [] c = "9" -> 9

\* s[a..b], empty when a > b
Slice(s, a, b) == IF a > b THEN <<>> ELSE SubSeq(s, a, b)

\* index of the first occurrence of c in s, 0 when there is none
IndexOf(s, c) ==
    IF \E i \in 1..Len(s) : s[i] = c
    THEN CHOOSE i \in 1..Len(s) : s[i] = c /\ \A j \in 1..(i - 1) : s[j] # c
    ELSE 0

Contains(s, c) == IndexOf(s, c) # 0

\* str.strip()
Strip(s) ==
    IF \A i \in 1..Len(s) : s[i] \in Whitespace
    THEN <<>>
    ELSE LET first == CHOOSE i \in 1..Len(s) :
                          s[i] \notin Whitespace
                          /\ \A j \in 1..(i - 1) : s[j] \in Whitespace
             last  == CHOOSE i \in 1..Len(s) :
                          s[i] \notin Whitespace
                          /\ \A j \in (i + 1)..Len(s) : s[j] \in Whitespace
         IN  SubSeq(s, first, last)

\* str.split(c): the pieces between the occurrences of c, empty ones kept
RECURSIVE Split(_, _)
Split(s, c) ==
    LET i == IndexOf(s, c)
    IN  IF i = 0 THEN <<s>>
        ELSE <<Slice(s, 1, i - 1)>> \o Split(Slice(s, i + 1, Len(s)), c)

\* value of a run of decimal digits, underscores skipped
RECURSIVE DigitsValue(_)
DigitsValue(s) ==
    IF s = <<>> THEN 0
    ELSE IF s[Len(s)] = "_" THEN DigitsValue(Slice(s, 1, Len(s) - 1))
    ELSE 10 * DigitsValue(Slice(s, 1, Len(s) - 1)) + DigitVal(s[Len(s)])

\* the digit part of an int() literal: digits, single underscores between them
DigitRun(s) ==
    /\ s # <<>>
    /\ \A i \in 1..Len(s) : s[i] \in Digits \cup {"_"}
    /\ s[1] # "_" /\ s[Len(s)] # "_"
    /\ \A i \in 1..(Len(s) - 1) : ~(s[i] = "_" /\ s[i + 1] = "_")

\* int(text): surrounding whitespace and one leading sign are accepted;
\* anything else is a ValueError (ok = FALSE)
IntParse(text) ==
    LET s    == Strip(text)
        sign == IF s # <<>> /\ s[1] \in {"+", "-"} THEN s[1] ELSE ""
        body == IF sign = "" THEN s ELSE Slice(s, 2, Len(s))
    IN  IF DigitRun(body)
        THEN [ok |-> TRUE,
              val |-> IF sign = "-" THEN 0 - DigitsValue(body) ELSE DigitsValue(body)]
        ELSE [ok |-> FALSE, val |-> 0]

\* sorted(S) for a finite set of integers
RECURSIVE SortedSet(_)
SortedSet(S) ==
    IF S = {} THEN <<>>
    ELSE LET m == CHOOSE x \in S : \A y \in S : x <= y
         IN  <<m>> \o SortedSet(S \ {m})

Range(f) == {f[i] : i \in DOMAIN f}

\* list(range(a, b + 1))
IntervalSeqMut(a, b) == [i \in 1..(b - a) |-> a + i - 1]

IntervalSeq(a, b) == [i \in 1..(b - a + 1) |-> a + i - 1]

\* --------------------------------------------------------- parse_port_spec
\* expand_token: a token holding "-" is split at its first "-" into start and
\* end, both through int(); any other token goes through int() whole.
\* ok = FALSE stands for the ValueError int() raises.
expand_tokenMut(token) ==
    IF Contains(token, "-")
    THEN LET i     == IndexOf(token, "-")
             start == IntParse(Slice(token, 1, i - 1))
             end   == IntParse(Slice(token, i + 1, Len(token)))
         IN  IF start.ok /\ end.ok
             THEN [ok |-> TRUE, vals |-> IntervalSeq(start.val, end.val)]
             ELSE [ok |-> TRUE, vals |-> <<>>]
    ELSE LET v == IntParse(token)
         IN  IF v.ok THEN [ok |-> TRUE, vals |-> <<v.val>>]
             ELSE [ok |-> TRUE, vals |-> <<>>]

expand_token(token) ==
    IF Contains(token, "-")
    THEN LET i     == IndexOf(token, "-")
             start == IntParse(Slice(token, 1, i - 1))
             end   == IntParse(Slice(token, i + 1, Len(token)))
         IN  IF start.ok /\ end.ok
             THEN [ok |-> TRUE, vals |-> IntervalSeq(start.val, end.val)]
             ELSE [ok |-> FALSE, vals |-> <<>>]
    ELSE LET v == IntParse(token)
         IN  IF v.ok THEN [ok |-> TRUE, vals |-> <<v.val>>]
             ELSE [ok |-> FALSE, vals |-> <<>>]

\* the for loop of parse_port_spec: strip, skip empty tokens, extend ports;
\* the first ValueError leaves the loop and the function
RECURSIVE ExtendPorts(_, _)
ExtendPorts(raw_tokens, ports) ==
    IF raw_tokens = <<>> THEN [ok |-> TRUE, ports |-> ports]
    ELSE LET token == Strip(Head(raw_tokens))
         IN  IF token = <<>> THEN ExtendPorts(Tail(raw_tokens), ports)
             ELSE LET e == expand_token(token)
                  IN  IF e.ok THEN ExtendPorts(Tail(raw_tokens), ports \o e.vals)
                      ELSE [ok |-> FALSE, ports |-> <<>>]

\* the filter of the return statement: 0 < port < 65536
PortInDomainMut(port) == 0 < port

PortInDomain(port) == 0 < port /\ port < 65536

\* sorted(set(...)) of the return statement
NormalizeMut(ports) == ports

Normalize(ports) == SortedSet(Range(ports))

parse_port_spec(spec) ==
    LET r == ExtendPorts(Split(spec, ","), <<>>)
    IN  IF r.ok
        THEN [ok |-> TRUE,
              ports |-> Normalize(SelectSeq(r.ports, PortInDomain))]
        ELSE [ok |-> FALSE, ports |-> <<>>]

\* ---------------------------------------------------------- build_port_list
TopPorts == <<80, 443, 22, 3389, 21, 23, 25, 53, 110, 143, 465, 587, 993, 995, 8080, 8443>>

\* truth value of args.ports: None (option not given) and "" are false
Truthy(text) == text # None /\ text # <<>>

build_port_list(a) ==
    IF Truthy(a.ports) THEN parse_port_spec(a.ports)
    ELSE IF a.top THEN [ok |-> TRUE, ports |-> TopPorts]
    ELSE [ok |-> TRUE, ports |-> IntervalSeq(a.start_port, a.end_port)]

\* ------------------------------------------------------------------ inputs
\* tokens a --ports value is put together from
TokenPool ==
    { <<"2", "2">>, <<"8", "0">>, <<" ", "4", " ">>,
      <<"a", "b", "c">>, <<"5", "-">>, <<"a", "-", "b">>, <<>>, <<" ">>,
      <<"7", "0", "0", "0", "0">>, <<"0">>,
      <<"2", "0", "-", "2", "2">>, <<"2", "2", "-", "2", "0">>,
      <<"1", "-", "-", "5">>, <<"-", "5">>,
      <<"6", "5", "5", "3", "5", "-", "6", "5", "5", "3", "7">> }

RECURSIVE Join(_)
Join(tokens) ==
    IF tokens = <<>> THEN <<>>
    ELSE IF Len(tokens) = 1 THEN tokens[1]
    ELSE tokens[1] \o <<",">> \o Join(Tail(tokens))

\* "22,80,8000-8100", the example of the --ports help text
HelpExample ==
    <<"2", "2", ",", "8", "0", ",", "8", "0", "0", "0", "-", "8", "1", "0", "0">>

SpecStrings ==
    { Join(ts) : ts \in UNION { [1..n -> TokenPool] : n \in 0..MaxTokens } }
        \cup {HelpExample}

\* --start-port / --end-port pairs; <<1, 1024>> is the argparse default
RangePairs == { <<1, 1024>>, <<0, 1>>, <<20, 22>>, <<3, 2>>, <<65535, 65537>> }

ArgSet ==
    { [ports |-> p, top |-> t, start_port |-> r[1], end_port |-> r[2]] :
        p \in SpecStrings \cup {None}, t \in BOOLEAN, r \in RangePairs }

\* ------------------------------------------------------------ grab_banner
\* socket.getservbyport(port, "tcp"): the entries of the services database
\* for the ports used here; NoEntry stands for OSError "port/proto not found"
NoEntry == <<"OSError">>

getservbyport(port) ==
    CASE port = 1 -> <<"t", "c", "p", "m", "u", "x">>
      [] port = 20 -> <<"f", "t", "p", "-", "d", "a", "t", "a">>
      [] port = 21 -> <<"f", "t", "p">>
      [] port = 22 -> <<"s", "s", "h">>
      [] port = 23 -> <<"t", "e", "l", "n", "e", "t">>
      [] port = 25 -> <<"s", "m", "t", "p">>
      [] port = 53 -> <<"d", "o", "m", "a", "i", "n">>
      [] port = 80 -> <<"h", "t", "t", "p">>
      [] port = 110 -> <<"p", "o", "p", "3">>
      [] port = 143 -> <<"i", "m", "a", "p", "2">>
      [] port = 443 -> <<"h", "t", "t", "p", "s">>
      [] port = 465 -> <<"s", "u", "b", "m", "i", "s", "s", "i", "o", "n", "s">>
      [] port = 587 -> <<"s", "u", "b", "m", "i", "s", "s", "i", "o", "n">>
      [] port = 993 -> <<"i", "m", "a", "p", "s">>
      [] port = 995 -> <<"p", "o", "p", "3", "s">>
      [] port = 3389 -> <<"m", "s", "-", "w", "b", "t", "-", "s", "e", "r", "v", "e", "r">>
      [] port = 8080 -> <<"h", "t", "t", "p", "-", "a", "l", "t">>
      [] OTHER -> NoEntry

\* sub in text, for two sequences of characters
HasSubseq(text, sub) ==
    \E i \in 0..(Len(text) - Len(sub)) :
        \A j \in 1..Len(sub) : text[i + j] = sub[j]

\* the bytes written, as the pieces they are concatenated from
NoProbe == <<>>
HeadProbe == <<"HEAD / HTTP/1.0\r\n", "Host: ", "localhost", "\r\n\r\n">>
CrlfProbe == <<"\r\n">>

MailServices == { <<"s", "m", "t", "p">>, <<"p", "o", "p", "3">>, <<"i", "m", "a", "p">> }
InteractivePorts == {22, 23, 3389}

\* the if/elif chain choosing the probe; service_name is None for port >= 1024
SelectProbe(port, service_name) ==
    IF service_name # None /\ service_name # <<>> /\ HasSubseq(service_name, <<"h", "t", "t", "p">>)
    THEN HeadProbe
    ELSE IF service_name \in MailServices THEN CrlfProbe
    ELSE IF port \in InteractivePorts THEN CrlfProbe
    ELSE NoProbe

\* raw.decode(errors="ignore"): bytes that are not valid text are dropped
ValidByte(b) == b # "0xFF"
Decode(raw) == SelectSeq(raw, ValidByte)

\* banner = raw.decode(errors="ignore").strip(); return banner or None
BannerOfMut(raw) == Strip(Decode(raw))

BannerOf(raw) ==
    LET banner == Strip(Decode(raw))
    IN  IF banner = <<>> THEN None ELSE banner

\* what a peer may answer to the read of up to 256 bytes
RawResponses == { <<>>, <<"\r", "\n">>, <<"S", "\r", "\n">> }

\* ---------------------------------------------------------------- results
OPEN_STATUS == "open"
CLOSED_STATUS == "closed"
FILTERED_STATUS == "filtered"

\* PortScanResult(port, status, service, banner)
PortScanResult(port, status, service, banner) ==
    [port |-> port, status |-> status, service |-> service, banner |-> banner]

NoResult == [port |-> 0, status |-> "none", service |-> None, banner |-> None]

\* exceptions, by class name
TimeoutError == "TimeoutError"
ConnectionRefusedError == "ConnectionRefusedError"
ConnectionResetError == "ConnectionResetError"
OSError == "OSError"
OverflowError == "OverflowError"

IsConnectionError(exc) == exc \in {ConnectionRefusedError, ConnectionResetError}
IsOSError(exc) == IsConnectionError(exc) \/ exc = OSError

\* the except clauses of probe_port, in their order: "raise" when none matches
ExceptStatusMut(exc) ==
    IF exc = TimeoutError THEN CLOSED_STATUS
    ELSE IF IsOSError(exc) THEN FILTERED_STATUS
    ELSE "raise"

ExceptStatus(exc) ==
    IF exc = TimeoutError THEN FILTERED_STATUS
    ELSE IF IsOSError(exc) THEN CLOSED_STATUS
    ELSE "raise"

\* the result built in an except clause; banner is the local of the try block
ExceptResultMut(port, status, banner) == PortScanResult(port, status, None, banner)

ExceptResult(port, status, banner) == PortScanResult(port, status, None, None)

\* service lookup of the try block: OSError turns into None
ServiceOrNone(port) ==
    IF getservbyport(port) = NoEntry THEN None ELSE getservbyport(port)

\* sorted(results, key=lambda r: r.port): stable insertion by port
RECURSIVE InsertByPort(_, _)
InsertByPort(sorted, r) ==
    IF sorted = <<>> THEN <<r>>
    ELSE IF r.port < Head(sorted).port THEN <<r>> \o sorted
    ELSE <<Head(sorted)>> \o InsertByPort(Tail(sorted), r)

RECURSIVE SortByPortFrom(_, _)
SortByPortFrom(results, acc) ==
    IF results = <<>> THEN acc
    ELSE SortByPortFrom(Tail(results), InsertByPort(acc, Head(results)))

SortByPortMut(results) == results

SortByPort(results) == SortByPortFrom(results, <<>>)

\* ------------------------------------------------------------------ state
VARIABLES
    args,         \* the parsed command line (ports, top, start_port, end_port)
    host,         \* args.host
    concurrency,  \* args.concurrency
    mainpc,       \* position of main()
    ports,        \* the list build_port_list returned
    scan,         \* run_scan: "not_started", "running", "returned", "raised"
    sem,          \* the semaphore's counter
    pc,           \* position of each probe_port coroutine
    attempts,     \* open_connection calls made by each probe
    conn,         \* how each probe's connection attempt ended
    sent,         \* the probe bytes each probe wrote
    banner,       \* the banner local of each probe
    closed,       \* whether close() was called on each probe's writer
    res,          \* the result each probe returned
    order,        \* the probes that returned, in the order they returned
    peer,         \* what each probe's peer did at the drain, the read, the close
    out,          \* the list run_scan returned
    enum          \* the header prober: position and locals of its main()

mainVars == <<args, host, concurrency, mainpc, ports>>
scanVars == <<scan, sem, pc, attempts, conn, sent, banner, closed, res, order, peer, out>>
vars == <<args, host, concurrency, mainpc, ports,
          scan, sem, pc, attempts, conn, sent, banner, closed, res, order, peer, out,
          enum>>

\* the header prober before its main() has run
NoEnum ==
    [pc |-> "not_run", port |-> 0, is_tls |-> FALSE, calls |-> <<>>, raw |-> <<>>,
     headers |-> <<>>, printed |-> [service |-> "", lines |-> <<>>, note |-> ""],
     ret |-> -1]

\* nothing has happened yet on the connection of a probe
NoPeer == [drain |-> "none", read |-> None, close |-> "none"]

Hosts == {"127.0.0.1", "localhost"}
IsIPLiteral(h) == h = "127.0.0.1"

Tasks == 1..Len(ports)

\* ------------------------------------------------------------------- main
InitResolve ==
    /\ args \in ArgSet
    /\ host \in Hosts
    /\ concurrency \in 1..MaxConcurrency
    /\ mainpc = "build_port_list"
    /\ ports = <<>>
    /\ scan = "not_started"
    /\ sem = 0
    /\ pc = <<>> /\ attempts = <<>> /\ conn = <<>> /\ sent = <<>>
    /\ banner = <<>> /\ closed = <<>> /\ res = <<>> /\ order = <<>>
    /\ peer = <<>>
    /\ out = <<>>
    /\ enum = NoEnum

\* ports = build_port_list(args); the ValueError of int() leaves main
BuildPortList ==
    /\ mainpc = "build_port_list"
    /\ LET r == build_port_list(args)
       IN  IF r.ok
           THEN mainpc' = "check_ports" /\ ports' = r.ports
           ELSE mainpc' = "ValueError" /\ ports' = ports
    /\ UNCHANGED <<args, host, concurrency>>
    /\ UNCHANGED scanVars
    /\ UNCHANGED enum

\* if not ports: raise SystemExit(...)
CheckPorts ==
    /\ mainpc = "check_ports"
    /\ mainpc' = IF ports = <<>> THEN "SystemExit" ELSE "run_scan"
    /\ UNCHANGED <<args, host, concurrency, ports>>
    /\ UNCHANGED scanVars
    /\ UNCHANGED enum

\* asyncio.run(run_scan(...)): the semaphore and one coroutine per port
RunScanStart ==
    /\ mainpc = "run_scan"
    /\ mainpc' = "scanning"
    /\ scan' = "running"
    /\ sem' = concurrency
    /\ pc' = [i \in Tasks |-> "pending"]
    /\ attempts' = [i \in Tasks |-> 0]
    /\ conn' = [i \in Tasks |-> "none"]
    /\ sent' = [i \in Tasks |-> NoProbe]
    /\ banner' = [i \in Tasks |-> None]
    /\ closed' = [i \in Tasks |-> FALSE]
    /\ res' = [i \in Tasks |-> NoResult]
    /\ order' = <<>>
    /\ peer' = [i \in Tasks |-> NoPeer]
    /\ out' = <<>>
    /\ UNCHANGED <<args, host, concurrency, ports>>
    /\ UNCHANGED enum

NextResolve == BuildPortList \/ CheckPorts \/ RunScanStart

SpecResolve == InitResolve /\ [][NextResolve]_vars

\* --------------------------------------------------------------- run_scan
\* command lines whose scan is followed; a list longer than MaxPorts is cut
ScanArgs ==
    { [ports |-> None, top |-> TRUE, start_port |-> 1, end_port |-> 1024],
      [ports |-> <<"2", "2", ",", " ", "4", " ">>, top |-> FALSE,
       start_port |-> 1, end_port |-> 1024],
      [ports |-> None, top |-> FALSE, start_port |-> 65535, end_port |-> 65537] }

Prefix(s, n) == IF Len(s) <= n THEN s ELSE SubSeq(s, 1, n)

\* the state in which run_scan has built its semaphore and its coroutines
Init ==
    /\ args \in ScanArgs
    /\ host \in Hosts
    /\ concurrency \in 1..MaxConcurrency
    /\ mainpc = "scanning"
    /\ ports = Prefix(build_port_list(args).ports, MaxPorts)
    /\ scan = "running"
    /\ sem = concurrency
    /\ pc = [i \in Tasks |-> "pending"]
    /\ attempts = [i \in Tasks |-> 0]
    /\ conn = [i \in Tasks |-> "none"]
    /\ sent = [i \in Tasks |-> NoProbe]
    /\ banner = [i \in Tasks |-> None]
    /\ closed = [i \in Tasks |-> FALSE]
    /\ res = [i \in Tasks |-> NoResult]
    /\ order = <<>>
    /\ peer = [i \in Tasks |-> NoPeer]
    /\ out = <<>>
    /\ enum = NoEnum

\* Semaphore.acquire() returns only while the counter is positive
CanAcquireMut(value) == TRUE

CanAcquire(value) == value > 0

\* leaving "async with semaphore" through an exception of class exc:
\* the except clauses build the result or let exc escape; the slot is released
ProbeExceptMut(i, exc) ==
    /\ sem' = IF ExceptStatus(exc) = "raise" THEN sem ELSE sem + 1
    /\ IF ExceptStatus(exc) = "raise"
       THEN /\ pc' = [pc EXCEPT ![i] = "raised"]
            /\ res' = res
            /\ order' = order
       ELSE /\ pc' = [pc EXCEPT ![i] = "done"]
            /\ order' = Append(order, i)
            /\ res' = [res EXCEPT ![i] =
                           ExceptResult(ports[i], ExceptStatus(exc), banner[i])]

ProbeExcept(i, exc) ==
    /\ sem' = sem + 1
    /\ IF ExceptStatus(exc) = "raise"
       THEN /\ pc' = [pc EXCEPT ![i] = "raised"]
            /\ res' = res
            /\ order' = order
       ELSE /\ pc' = [pc EXCEPT ![i] = "done"]
            /\ order' = Append(order, i)
            /\ res' = [res EXCEPT ![i] =
                           ExceptResult(ports[i], ExceptStatus(exc), banner[i])]

\* async with semaphore: ... await open_connection(host, port).  gather starts
\* the coroutines in the order of ports and the semaphore wakes its waiters
\* first come, first served, so the slots are taken in the order of ports.
Acquire(i) ==
    /\ scan = "running"
    /\ pc[i] = "pending"
    /\ \A j \in 1..(i - 1) : pc[j] # "pending"
    /\ CanAcquire(sem)
    /\ sem' = sem - 1
    /\ pc' = [pc EXCEPT ![i] = "connect"]
    /\ attempts' = [attempts EXCEPT ![i] = @ + 1]
    /\ UNCHANGED <<conn, sent, banner, closed, res, order, peer, out, scan>>
    /\ UNCHANGED mainVars
    /\ UNCHANGED enum

\* how open_connection under wait_for can end for this host and port: a port
\* outside 0..65535 makes connect() raise OverflowError for an IP literal and
\* getaddrinfo raise gaierror (an OSError) for a host name
ConnectOutcomes(h, port) ==
    IF 0 <= port /\ port <= 65535
    THEN {"ok", TimeoutError, ConnectionRefusedError, OSError}
    ELSE IF IsIPLiteral(h) THEN {OverflowError} ELSE {OSError}

\* an exception leaves probe_port before line 79: the code does not close the
\* writer.  When the frame dies the writer's finalizer closes it on builds
\* that have one (CPython from 3.11.5 on); on the others it stays open.
Abandon(i) == \E c \in BOOLEAN : closed' = [closed EXCEPT ![i] = c]

\* the connection attempt ends; on success grab_banner runs up to its first
\* await: service lookup (port < 1024 only), probe choice, writer.write
ConnectDone(i) ==
    /\ scan = "running"
    /\ pc[i] = "connect"
    /\ \E o \in ConnectOutcomes(host, ports[i]) :
        /\ conn' = [conn EXCEPT ![i] = o]
        /\ IF o # "ok"
           THEN ProbeExcept(i, o) /\ UNCHANGED <<sent, closed>>
           ELSE IF ports[i] < 1024 /\ getservbyport(ports[i]) = NoEntry
           THEN ProbeExcept(i, OSError) /\ Abandon(i) /\ UNCHANGED sent
           ELSE LET service_name == IF ports[i] < 1024
                                    THEN getservbyport(ports[i]) ELSE None
                    probe == SelectProbe(ports[i], service_name)
                IN  /\ sent' = [sent EXCEPT ![i] = probe]
                    /\ pc' = [pc EXCEPT ![i] =
                                 IF probe # NoProbe THEN "drain" ELSE "read"]
                    /\ UNCHANGED <<sem, res, order, closed>>
    /\ UNCHANGED <<attempts, banner, peer, out, scan>>
    /\ UNCHANGED mainVars
    /\ UNCHANGED enum

\* await writer.drain() ends: ConnectionError and TimeoutError make
\* grab_banner return None, any other exception leaves grab_banner
DrainDone(i) ==
    /\ scan = "running"
    /\ pc[i] = "drain"
    /\ \E o \in {"ok", ConnectionResetError, TimeoutError, OSError} :
        /\ peer' = [peer EXCEPT ![i].drain = o]
        /\ IF o = "ok"
           THEN pc' = [pc EXCEPT ![i] = "read"] /\ UNCHANGED <<sem, res, order, closed>>
           ELSE IF IsConnectionError(o) \/ o = TimeoutError
           THEN /\ pc' = [pc EXCEPT ![i] = "close"]
                /\ closed' = [closed EXCEPT ![i] = TRUE]
                /\ UNCHANGED <<sem, res, order>>
           ELSE ProbeExcept(i, o) /\ Abandon(i)
    /\ UNCHANGED <<attempts, conn, sent, banner, out, scan>>
    /\ UNCHANGED mainVars
    /\ UNCHANGED enum

\* reader.read(256): at most the first 256 bytes of what the peer sent
ReadLimit == 256

ReadBytes(payload) == Prefix(payload, ReadLimit)

\* await wait_for(reader.read(256)) ends: data gives the banner, TimeoutError
\* and OSError give None; then writer.close() and await writer.wait_closed().
\* payloads is what the peer may have sent; keep tells whether the history
\* peer records it (the banner local holds what the probe made of it).
ReadDoneFrom(i, payloads, keep) ==
    /\ scan = "running"
    /\ pc[i] = "read"
    /\ \/ \E payload \in payloads :
              /\ banner' = [banner EXCEPT ![i] = BannerOf(ReadBytes(payload))]
              /\ peer' = IF keep THEN [peer EXCEPT ![i].read = payload] ELSE peer
       \/ \E o \in {TimeoutError, ConnectionResetError, OSError} :
              /\ banner' = [banner EXCEPT ![i] = None]
              /\ peer' = IF keep THEN [peer EXCEPT ![i].read = <<o>>] ELSE peer
    /\ pc' = [pc EXCEPT ![i] = "close"]
    /\ closed' = [closed EXCEPT ![i] = TRUE]
    /\ UNCHANGED <<sem, attempts, conn, sent, res, order, out, scan>>
    /\ UNCHANGED mainVars
    /\ UNCHANGED enum

ReadDone(i) == ReadDoneFrom(i, RawResponses, FALSE)

\* await writer.wait_closed() ends, normally or with the exception the
\* connection was lost with; then the service lookup and the Open result
CloseDone(i) ==
    /\ scan = "running"
    /\ pc[i] = "close"
    /\ \E o \in {"ok", ConnectionResetError, TimeoutError} :
        /\ peer' = [peer EXCEPT ![i].close = o]
        /\ IF o = "ok"
           THEN /\ sem' = sem + 1
                /\ pc' = [pc EXCEPT ![i] = "done"]
                /\ order' = Append(order, i)
                /\ res' = [res EXCEPT ![i] =
                               PortScanResult(ports[i], OPEN_STATUS,
                                              ServiceOrNone(ports[i]), banner[i])]
           ELSE ProbeExcept(i, o)
    /\ UNCHANGED <<attempts, conn, sent, banner, closed, out, scan>>
    /\ UNCHANGED mainVars
    /\ UNCHANGED enum

\* gather has every result, in the order of ports; run_scan returns them sorted
RunScanReturn ==
    /\ scan = "running"
    /\ \A i \in Tasks : pc[i] = "done"
    /\ scan' = "returned"
    /\ out' = SortByPort(res)
    /\ UNCHANGED <<sem, pc, attempts, conn, sent, banner, closed, res, order, peer>>
    /\ UNCHANGED mainVars
    /\ UNCHANGED enum

\* gather passes on the exception of a probe, run_scan raises it, and
\* asyncio.run cancels the probes still running (each gives its slot back)
RunScanRaise ==
    /\ scan = "running"
    /\ \E i \in Tasks : pc[i] = "raised"
    /\ scan' = "raised"
    /\ pc' = [i \in Tasks |->
                 IF pc[i] \in {"done", "raised"} THEN pc[i] ELSE "cancelled"]
    /\ sem' = sem + Cardinality({i \in Tasks :
                                    pc[i] \in {"connect", "drain", "read", "close"}})
    /\ UNCHANGED <<attempts, conn, sent, banner, closed, res, order, peer, out>>
    /\ UNCHANGED mainVars
    /\ UNCHANGED enum

Next ==
    \/ \E i \in Tasks : Acquire(i)
    \/ \E i \in Tasks : ConnectDone(i)
    \/ \E i \in Tasks : DrainDone(i)
    \/ \E i \in Tasks : ReadDone(i)
    \/ \E i \in Tasks : CloseDone(i)
    \/ RunScanReturn
    \/ RunScanRaise

Spec == Init /\ [][Next]_vars

\* the event loop runs every callback that is ready: wait_for ends the
\* connect and the read at the timeout at the latest, and drain() and
\* wait_closed() after a write of at most one small request complete without
\* the peer, so a step that is possible is eventually taken
SpecFair == Spec /\ WF_vars(Next)

\* ------------------------------------------------- one probe, any payload
\* the bytes a peer sends: printable, blank, line ends, not valid as text
ByteAlphabet == {"S", " ", "\r", "\n", "0xFF"}

\* b"SSH-2.0-test\r\n"
SshPayload == <<"S", "S", "H", "-", "2", ".", "0", "-", "t", "e", "s", "t">> \o <<"\r", "\n">>

\* one byte more than read(256) takes
LongPayload == [k \in 1..(ReadLimit + 1) |-> IF k <= ReadLimit THEN "S" ELSE "X"]

Payloads ==
    UNION { [1..n -> ByteAlphabet] : n \in 0..MaxRaw } \cup {SshPayload, LongPayload}

\* the scan of the single port 22
BannerArgs ==
    { [ports |-> <<"2", "2">>, top |-> FALSE, start_port |-> 1, end_port |-> 1024] }

InitBanner ==
    /\ args \in BannerArgs
    /\ host \in Hosts
    /\ concurrency \in 1..MaxConcurrency
    /\ mainpc = "scanning"
    /\ ports = build_port_list(args).ports
    /\ scan = "running"
    /\ sem = concurrency
    /\ pc = [i \in Tasks |-> "pending"]
    /\ attempts = [i \in Tasks |-> 0]
    /\ conn = [i \in Tasks |-> "none"]
    /\ sent = [i \in Tasks |-> NoProbe]
    /\ banner = [i \in Tasks |-> None]
    /\ closed = [i \in Tasks |-> FALSE]
    /\ res = [i \in Tasks |-> NoResult]
    /\ order = <<>>
    /\ peer = [i \in Tasks |-> NoPeer]
    /\ out = <<>>
    /\ enum = NoEnum

NextBanner ==
    \/ \E i \in Tasks : Acquire(i)
    \/ \E i \in Tasks : ConnectDone(i)
    \/ \E i \in Tasks : DrainDone(i)
    \/ \E i \in Tasks : ReadDoneFrom(i, Payloads, TRUE)
    \/ \E i \in Tasks : CloseDone(i)
    \/ RunScanReturn

SpecBanner == InitBanner /\ [][NextBanner]_vars

\* ------------------------------------------------ enumerator.py: headers
MaxLines == 4

LineBreaks == {"\r", "\n"}

\* str.splitlines(): lines end at \n, \r or \r\n; no line after a final break
RECURSIVE splitlines(_)
splitlines(text) ==
    IF text = <<>> THEN <<>>
    ELSE IF \A k \in 1..Len(text) : text[k] \notin LineBreaks THEN <<text>>
    ELSE LET b == CHOOSE k \in 1..Len(text) :
                      text[k] \in LineBreaks
                      /\ \A j \in 1..(k - 1) : text[j] \notin LineBreaks
             next == IF text[b] = "\r" /\ b < Len(text) /\ text[b + 1] = "\n"
                     THEN b + 2 ELSE b + 1
         IN  <<Slice(text, 1, b - 1)>> \o splitlines(Slice(text, next, Len(text)))

\* headers[key] = value
SetItemMut(headers, key, value) ==
    [n \in DOMAIN headers \cup {key} |-> IF n \in DOMAIN headers THEN headers[n] ELSE value]

SetItem(headers, key, value) ==
    [n \in DOMAIN headers \cup {key} |-> IF n = key THEN value ELSE headers[n]]

\* the loop "for line in lines[1:]", lines[k - 1] in Python being lines[k] here
RECURSIVE ParseLines(_, _, _)
ParseLines(lines, k, headers) ==
    IF k > Len(lines) THEN headers
    ELSE IF Strip(lines[k]) = <<>> THEN headers
    ELSE IF Contains(lines[k], ":")
    THEN LET c == IndexOf(lines[k], ":")
             key == Strip(Slice(lines[k], 1, c - 1))
             value == Strip(Slice(lines[k], c + 1, Len(lines[k])))
         IN  ParseLines(lines, k + 1, SetItem(headers, key, value))
    ELSE ParseLines(lines, k + 1, headers)

parse_headers(raw) == ParseLines(splitlines(raw), 2, <<>>)

\* lines a server may answer with
StatusLine == <<"H", "T", "T", "P", "/", "1", ".", "1", " ", "2", "0", "0", " ", "O", "K">>
LinePool ==
    { StatusLine, <<"S", "e", "r", "v", "e", "r", ":", " ", "X">>, <<"S", "e", "r", "v", "e", "r", ":", " ", "Y">>, <<>>, <<" ">>, <<" ", "V", "i", "a", " ", ":", "a", ":", "b", " ">> }

\* "HTTP/1.1 200 OK\r\nServer: X\r\nServer: Y\r\n\r\nbody"
CannedResponse == <<"H", "T", "T", "P", "/", "1", ".", "1", " ", "2", "0", "0", " ", "O", "K", "\r", "\n", "S", "e", "r", "v", "e", "r", ":", " ", "X", "\r", "\n", "S", "e", "r", "v", "e", "r", ":", " ", "Y", "\r", "\n", "\r", "\n", "b", "o", "d", "y">>

RECURSIVE JoinLines(_, _)
JoinLines(ls, sep) ==
    IF ls = <<>> THEN <<>>
    ELSE IF Len(ls) = 1 THEN ls[1]
    ELSE ls[1] \o sep \o JoinLines(Tail(ls), sep)

Responses ==
    { JoinLines(ls, sep) :
          ls \in UNION { [1..n -> LinePool] : n \in 0..MaxLines },
          sep \in { <<"\r", "\n">>, <<"\n">> } }
    \cup {CannedResponse}

\* --------------------------------------------------- enumerator.py: main
EnumPorts == {80, 443, 8080, 8443}

\* is_tls = args.port in {443, 8443}
IsTlsPortMut(p) == p = 443

IsTlsPort(p) == p \in {443, 8443}

\* for key in ("Server", "X-Powered-By", "Via", "Date")
ReportedKeys == << <<"S", "e", "r", "v", "e", "r">>, <<"X", "-", "P", "o", "w", "e", "r", "e", "d", "-", "B", "y">>, <<"V", "i", "a">>, <<"D", "a", "t", "e">> >>

\* what main() prints after a response: the service line, then the reported
\* headers that are present, or the note that there are none
Report(is_tls, headers) ==
    LET present == SelectSeq(ReportedKeys, LAMBDA key : key \in DOMAIN headers)
    IN  [service |-> IF is_tls THEN "HTTPS" ELSE "HTTP",
         lines   |-> [k \in 1..Len(present) |-> <<present[k], headers[present[k]]>>],
         note    |-> IF DOMAIN headers = {} THEN "(No headers received)" ELSE ""]

\* the scanner's variables while only the header prober runs
ScannerNotRun ==
    /\ args = None /\ host = "localhost" /\ concurrency = 1
    /\ mainpc = "not_run" /\ ports = <<>>
    /\ scan = "not_started" /\ sem = 0
    /\ pc = <<>> /\ attempts = <<>> /\ conn = <<>> /\ sent = <<>>
    /\ banner = <<>> /\ closed = <<>> /\ res = <<>> /\ order = <<>>
    /\ peer = <<>>

\* main() after parse_args
InitEnum ==
    /\ ScannerNotRun
    /\ out = <<>>
    /\ \E p \in EnumPorts : enum = [NoEnum EXCEPT !.pc = "is_tls", !.port = p]

EnumStep == UNCHANGED <<mainVars, scanVars>>

\* is_tls = args.port in {443, 8443}
SelectTransport ==
    /\ enum.pc = "is_tls"
    /\ enum' = [enum EXCEPT !.is_tls = IsTlsPort(enum.port), !.pc = "call"]
    /\ EnumStep

\* https_head(...) if is_tls else http_head(...)
CallHead ==
    /\ enum.pc = "call"
    /\ enum' = [enum EXCEPT
                   !.calls = Append(@, IF enum.is_tls THEN "https_head" ELSE "http_head"),
                   !.pc = "create_connection"]
    /\ EnumStep

\* except Exception as e: print(...); return 1
EnumFailed(stage) ==
    [enum EXCEPT !.pc = "failed", !.ret = 1,
                 !.printed = [service |-> "", lines |-> <<>>,
                              note |-> "[!] Connection failed: " \o stage]]

\* socket.create_connection((host, port), timeout)
CreateConnection ==
    /\ enum.pc = "create_connection"
    /\ \/ enum' = [enum EXCEPT !.pc = IF enum.is_tls THEN "wrap_socket" ELSE "sendall"]
       \/ enum' = EnumFailed("create_connection")
    /\ EnumStep

\* context.wrap_socket(sock, server_hostname=host): the TLS handshake
WrapSocket ==
    /\ enum.pc = "wrap_socket"
    /\ \/ enum' = [enum EXCEPT !.pc = "sendall"]
       \/ enum' = EnumFailed("wrap_socket")
    /\ EnumStep

\* sock.sendall(request)
SendAll ==
    /\ enum.pc = "sendall"
    /\ \/ enum' = [enum EXCEPT !.pc = "recv"]
       \/ enum' = EnumFailed("sendall")
    /\ EnumStep

RecvLimit == 4096

\* data = sock.recv(4096); return data.decode(errors="ignore")
Recv ==
    /\ enum.pc = "recv"
    /\ \/ \E data \in Responses :
              enum' = [enum EXCEPT !.raw = Decode(Prefix(data, RecvLimit)), !.pc = "parse_headers"]
       \/ enum' = EnumFailed("recv")
    /\ EnumStep

\* headers = parse_headers(raw); the report; return 0
ParseAndReport ==
    /\ enum.pc = "parse_headers"
    /\ LET headers == parse_headers(enum.raw)
       IN  enum' = [enum EXCEPT !.headers = <<headers>>,
                                !.printed = Report(enum.is_tls, headers),
                                !.ret = 0, !.pc = "done"]
    /\ EnumStep

NextEnum ==
    \/ SelectTransport
    \/ CallHead
    \/ CreateConnection
    \/ WrapSocket
    \/ SendAll
    \/ Recv
    \/ ParseAndReport

SpecEnum == InitEnum /\ [][NextEnum]_vars

\* ----------------------------------------------------------------- claims
InFlight == {i \in Tasks : pc[i] \in {"connect", "drain", "read", "close"}}

Returned == {i \in Tasks : pc[i] = "done"}

\* C1: the number of probes between the start of their connection attempt
\* and the return of their outcome never exceeds the concurrency cap.
C1_InFlightWithinCap == Cardinality(InFlight) <= concurrency

\* the cap is reached while another probe is held back at the semaphore
C1_Witness ==
    /\ scan = "running"
    /\ concurrency > 1
    /\ Cardinality(InFlight) = concurrency
    /\ \E i \in Tasks : pc[i] = "pending"

\* C2: every probe whose connection was established returns status Open,
\* whatever happens in the service lookup, the probe write, the read or the
\* close that follow.
C2_ConnectedIsOpen ==
    \A i \in Returned : conn[i] = "ok" => res[i].status = OPEN_STATUS

\* C3: no failure of one probe leaves run_scan or keeps another probe from
\* completing: no probe ends with an escaping exception, none is cancelled,
\* and run_scan does not raise.
C3_FailuresContained ==
    /\ scan # "raised"
    /\ \A i \in Tasks : pc[i] \notin {"raised", "cancelled"}

\* C4: the sequence run_scan returns is in ascending order of port, for
\* every order of the input and every order of completion of the probes.
C4_ReturnedSorted ==
    scan = "returned" =>
        \A i, j \in 1..Len(out) : i < j => out[i].port <= out[j].port

\* run_scan returned for an input that was not ascending, after the probes
\* completed in an order that is neither the input order nor the port order
C4_Witness ==
    /\ scan = "returned"
    /\ \E i, j \in Tasks : i < j /\ ports[i] > ports[j]
    /\ \E a, b \in 1..Len(order) : a < b /\ order[a] > order[b]
    /\ \E a, b \in 1..Len(order) : a < b /\ ports[order[a]] > ports[order[b]]

\* C5: a connection attempt that times out yields Filtered, one that is
\* refused or fails with another OS error yields Closed, and no failed
\* connection attempt yields Open.
C5_ConnectClassification ==
    \A i \in Tasks :
        /\ conn[i] = TimeoutError =>
               pc[i] = "done" /\ res[i].status = FILTERED_STATUS
        /\ conn[i] \in {ConnectionRefusedError, OSError} =>
               pc[i] = "done" /\ res[i].status = CLOSED_STATUS
        /\ pc[i] = "done" /\ res[i].status = OPEN_STATUS => conn[i] = "ok"

\* one probe timed out, one was refused, one connected and is Open
C5_Witness ==
    /\ \E i \in Returned : conn[i] = TimeoutError
    /\ \E i \in Returned : conn[i] = ConnectionRefusedError
    /\ \E i \in Returned : conn[i] = "ok" /\ res[i].status = OPEN_STATUS

\* C6: every outcome that is Closed or Filtered has neither a service nor a
\* banner, as returned by a probe and as returned by run_scan.
C6_OnlyOpenHasDetails ==
    /\ \A i \in Returned :
           res[i].status # OPEN_STATUS =>
               res[i].service = None /\ res[i].banner = None
    /\ \A k \in 1..Len(out) :
           out[k].status # OPEN_STATUS =>
               out[k].service = None /\ out[k].banner = None

\* a probe that had read a banner and knows a service returned Closed
C6_Witness ==
    \E i \in Returned :
        /\ res[i].status = CLOSED_STATUS
        /\ banner[i] # None
        /\ getservbyport(ports[i]) # NoEntry

\* C7: a scan makes exactly one connection attempt for every resolved port
\* and its result holds exactly one outcome for every resolved port.
C7_OneAttemptOneOutcome ==
    /\ \A i \in Tasks : attempts[i] <= 1
    /\ scan \in {"returned", "raised"} =>
           \A i \in Tasks :
               /\ attempts[i] = 1
               /\ Cardinality({k \in 1..Len(out) : out[k].port = ports[i]}) = 1

\* the trimmed tokens of a --ports value
TokensOf(spec) == {Strip(t) : t \in Range(Split(spec, ","))}

StrictlyAscending(list) ==
    \A i \in 1..(Len(list) - 1) : list[i] < list[i + 1]

DuplicateFree(list) == Cardinality(Range(list)) = Len(list)

WithinDomain(list) == \A i \in 1..Len(list) : list[i] \in 1..65535

HandedToScan == mainpc \in {"run_scan", "scanning"}

\* the command line is a valid input: a --ports value, the curated list, or
\* bounds within 1..65535
ValidForm ==
    \/ Truthy(args.ports)
    \/ args.top
    \/ (args.start_port >= 1 /\ args.end_port <= 65535)

WellFormedToken(t) ==
    \/ IntParse(t).ok
    \/ \E k \in 1..Len(t) :
           /\ t[k] = "-"
           /\ IntParse(Slice(t, 1, k - 1)).ok
           /\ IntParse(Slice(t, k + 1, Len(t))).ok

\* C9 as stated: when any token of the --ports value is neither an integer
\* nor a well-formed start-end range, resolution fails with an error; no
\* such token is skipped.
C9_Original ==
    ( /\ mainpc # "build_port_list"
      /\ Truthy(args.ports)
      /\ \E t \in TokensOf(args.ports) : ~WellFormedToken(t) )
    => (mainpc = "ValueError")

\* C9, amended: when any token that is not empty after trimming is neither
\* an integer nor a well-formed start-end range, resolution fails with an
\* error; empty and blank tokens are skipped.
C9_MalformedTokenAborts ==
    ( /\ mainpc # "build_port_list"
      /\ Truthy(args.ports)
      /\ \E t \in TokensOf(args.ports) : t # <<>> /\ ~WellFormedToken(t) )
    => (mainpc = "ValueError")

\* resolution failed for a value holding a well-formed and a malformed token
C9_Witness ==
    /\ mainpc = "ValueError"
    /\ \E t \in TokensOf(args.ports) : t # <<>> /\ WellFormedToken(t)
    /\ \E t \in TokensOf(args.ports) : t # <<>> /\ ~WellFormedToken(t)

\* the token is one integer outside 1..65535
OutOfDomainToken(t) ==
    ~Contains(t, "-") /\ IntParse(t).ok /\ IntParse(t).val \notin 1..65535

NoScan ==
    /\ ~HandedToScan
    /\ (mainpc = "check_ports" => ports = <<>>)

\* C10 as stated: a --ports value naming a port outside 1..65535 fails with
\* a configuration error and no scan is started.
C10_Original ==
    ( /\ mainpc # "build_port_list"
      /\ Truthy(args.ports)
      /\ \E t \in TokensOf(args.ports) : OutOfDomainToken(t) )
    => NoScan

\* C10, amended: a --ports value whose tokens all name ports outside
\* 1..65535, such as "70000", resolves to the empty list and fails with the
\* configuration error of main, and "abc" fails with the error of int(); no
\* scan is started for either.
C10_OnlyOutOfDomainFails ==
    /\ ( /\ mainpc # "build_port_list"
         /\ Truthy(args.ports)
         /\ TokensOf(args.ports) # {<<>>}
         /\ \A t \in TokensOf(args.ports) : t = <<>> \/ OutOfDomainToken(t) )
       => (NoScan /\ mainpc \in {"check_ports", "SystemExit"})
    /\ (mainpc # "build_port_list" /\ args.ports = <<"a", "b", "c">>)
       => (mainpc = "ValueError")

\* main has left with SystemExit for --ports 70000
C10_Witness ==
    /\ mainpc = "SystemExit"
    /\ args.ports = <<"7", "0", "0", "0", "0">>

\* a token is a run of digits, or two runs of digits joined by "-"
UnsignedInt(t) == t # <<>> /\ \A i \in 1..Len(t) : t[i] \in Digits

PlainRange(t) ==
    \E k \in 1..Len(t) :
        /\ t[k] = "-"
        /\ UnsignedInt(Slice(t, 1, k - 1))
        /\ UnsignedInt(Slice(t, k + 1, Len(t)))

\* the ports a token names, a range taken with both its ends
Expansion(t) ==
    IF UnsignedInt(t) THEN {DigitsValue(t)}
    ELSE LET k == IndexOf(t, "-")
         IN  DigitsValue(Slice(t, 1, k - 1))..DigitsValue(Slice(t, k + 1, Len(t)))

AllTokensPlain ==
    /\ mainpc # "build_port_list"
    /\ Truthy(args.ports)
    /\ \A t \in TokensOf(args.ports) : UnsignedInt(t) \/ PlainRange(t)

NamedPorts == UNION {Expansion(t) : t \in TokensOf(args.ports)}

\* C11 as stated: when every token is an integer or a start-end range, the
\* list returned is exactly the union of the expansions of the tokens, each
\* range with both its ends, every port once.
C11_Original ==
    AllTokensPlain =>
        /\ mainpc # "ValueError"
        /\ Range(ports) = NamedPorts
        /\ DuplicateFree(ports)

\* C11, amended: when every token is an integer or a start-end range, the
\* list returned is exactly the part within 1..65535 of the union of the
\* expansions of the tokens, each range with both its ends, every port once;
\* "22,80,8000-8100" gives the 103 ports 22, 80, 8000..8100.
C11_UnionWithinDomain ==
    /\ AllTokensPlain =>
           /\ mainpc # "ValueError"
           /\ Range(ports) = NamedPorts \cap 1..65535
           /\ DuplicateFree(ports)
    /\ (mainpc # "build_port_list" /\ args.ports = HelpExample) =>
           /\ Len(ports) = 103
           /\ Range(ports) = {22, 80} \cup 8000..8100

\* the example of the help text has been resolved to its 103 ports
C11_Witness ==
    /\ mainpc = "run_scan"
    /\ args.ports = HelpExample
    /\ Len(ports) = 103
    /\ ports[1] = 22 /\ ports[3] = 8000 /\ ports[103] = 8100

ReadFailed(rd) == rd \in {<<TimeoutError>>, <<ConnectionResetError>>, <<OSError>>}

\* b is text without the blanks at its two ends, None when nothing is left
TrimmedTo(text, b) ==
    /\ b # <<>>
    /\ (\A k \in 1..Len(text) : text[k] \in Whitespace) => b = None
    /\ (\E k \in 1..Len(text) : text[k] \notin Whitespace) =>
           /\ b # None
           /\ b[1] \notin Whitespace /\ b[Len(b)] \notin Whitespace
           /\ \E lo \in 1..Len(text) :
                  /\ lo + Len(b) - 1 <= Len(text)
                  /\ SubSeq(text, lo, lo + Len(b) - 1) = b
                  /\ \A k \in 1..(lo - 1) : text[k] \in Whitespace
                  /\ \A k \in (lo + Len(b))..Len(text) : text[k] \in Whitespace

\* C12: the banner of an Open port is the text of at most the first 256
\* bytes the peer sent, bytes that are no text dropped and the blanks at both
\* ends removed (b"SSH-2.0-test\r\n" gives "SSH-2.0-test"); it is None, never
\* the empty text, when the peer sent nothing, closed, or sent only blanks.
C12_BannerIsTrimmedText ==
    \A i \in Returned :
        res[i].status = OPEN_STATUS =>
            LET rd == peer[i].read
            IN  /\ res[i].banner # <<>>
                /\ (rd = None \/ ReadFailed(rd)) => res[i].banner = None
                /\ (rd # None /\ ~ReadFailed(rd)) =>
                       TrimmedTo(SelectSeq(Prefix(rd, 256), ValidByte), res[i].banner)
                /\ rd = SshPayload =>
                       res[i].banner = Prefix(SshPayload, Len(SshPayload) - 2)

\* an Open result carries the banner of the SSH greeting
C12_Witness ==
    \E i \in Returned :
        /\ res[i].status = OPEN_STATUS
        /\ peer[i].read = SshPayload
        /\ res[i].banner = Prefix(SshPayload, 12)

\* the connection of probe i stands and grab_banner has been entered
Established(i) == conn[i] = "ok" /\ pc[i] \in {"drain", "read", "close", "done"}

\* the well-known name of a port, looked up below 1024 only
NameKnown(port) == port < 1024 /\ getservbyport(port) # NoEntry

NameHas(port, sub) == NameKnown(port) /\ HasSubseq(getservbyport(port), sub)

IsHeadRequest(bytes) == Len(bytes) > 0 /\ bytes[1] = "HEAD / HTTP/1.0\r\n"

\* C13: on every established connection the probe follows the priority
\* name containing "http" -> HEAD request; else name smtp, pop3 or imap ->
\* CRLF; else port 22, 23 or 3389 -> CRLF; else nothing is written and the
\* reader waits for the peer.  From port 1024 on no name is looked up, so
\* only the last two cases occur.
C13_ProbeByPriority ==
    \A i \in Tasks :
        Established(i) =>
            LET p == ports[i]
                waited == pc[i] \in {"read", "close"} \/ peer[i].close # "none"
            IN  /\ NameHas(p, <<"h", "t", "t", "p">>) => IsHeadRequest(sent[i])
                /\ (~NameHas(p, <<"h", "t", "t", "p">>) /\ NameKnown(p)
                        /\ getservbyport(p) \in MailServices) => sent[i] = <<"\r\n">>
                /\ (~NameHas(p, <<"h", "t", "t", "p">>)
                        /\ ~(NameKnown(p) /\ getservbyport(p) \in MailServices)
                        /\ p \in {22, 23, 3389}) => sent[i] = <<"\r\n">>
                /\ (~NameHas(p, <<"h", "t", "t", "p">>)
                        /\ ~(NameKnown(p) /\ getservbyport(p) \in MailServices)
                        /\ p \notin {22, 23, 3389}) => (sent[i] = <<>> /\ waited)
                /\ p >= 1024 => (sent[i] = <<"\r\n">> <=> p \in {22, 23, 3389})

\* C14: whenever the HEAD request is written during the scan of a host, its
\* Host header carries that host.
C14_HostHeaderIsTarget ==
    \A i \in Tasks :
        (Established(i) /\ IsHeadRequest(sent[i])) =>
            (sent[i][2] = "Host: " /\ sent[i][3] = host)

\* the header map main() holds once parse_headers has returned
Headers == enum.headers[1]

IsBlank(line) == \A k \in 1..Len(line) : line[k] \in Whitespace

\* index of the first blank line after the first line, Len + 1 without one
HeaderEnd(ls) ==
    IF \E k \in 2..Len(ls) : IsBlank(ls[k])
    THEN CHOOSE k \in 2..Len(ls) :
             IsBlank(ls[k]) /\ \A j \in 2..(k - 1) : ~IsBlank(ls[j])
    ELSE Len(ls) + 1

HeaderLines(ls) ==
    { k \in 2..(HeaderEnd(ls) - 1) : \E j \in 1..Len(ls[k]) : ls[k][j] = ":" }

FirstColon(line) ==
    CHOOSE c \in 1..Len(line) : line[c] = ":" /\ \A j \in 1..(c - 1) : line[j] # ":"

NameOf(line) == Strip(Slice(line, 1, FirstColon(line) - 1))
ValueOf(line) == Strip(Slice(line, FirstColon(line) + 1, Len(line)))

\* C15: the map parse_headers returns has exactly the names of the lines with
\* a colon between the first line and the first blank line after it, each
\* name and value cut at the line's first colon and trimmed, a repeated name
\* holding the value of its last line; the canned response gives {Server: Y}.
C15_HeadersUpToBlankLine ==
    enum.pc = "done" =>
        LET ls == splitlines(enum.raw)
            hl == HeaderLines(ls)
            name == [k \in hl |-> NameOf(ls[k])]
        IN  /\ DOMAIN Headers = { name[k] : k \in hl }
            /\ \A k \in hl :
                   (\A j \in hl : j > k => name[j] # name[k])
                       => Headers[name[k]] = ValueOf(ls[k])
            /\ enum.raw = CannedResponse =>
                   (/\ DOMAIN Headers = {ReportedKeys[1]}
                    /\ Headers[ReportedKeys[1]] = <<"Y">>)

\* the canned response has been parsed
C15_Witness ==
    /\ enum.pc = "done"
    /\ enum.raw = CannedResponse
    /\ Headers[ReportedKeys[1]] = <<"Y">>

\* C16: the header prober calls one transport, once: https_head exactly for
\* the ports 443 and 8443, http_head for every other port; after a failure
\* of the connection, the handshake, the send or the read it has returned 1
\* with no header map and has made no second call.
C16_OneTransportOnce ==
    /\ Len(enum.calls) <= 1
    /\ enum.pc \notin {"is_tls", "call"} =>
           /\ Len(enum.calls) = 1
           /\ enum.calls[1] = "https_head" <=> enum.port \in {443, 8443}
           /\ enum.calls[1] = "http_head" <=> enum.port \notin {443, 8443}
    /\ enum.pc = "failed" =>
           /\ enum.ret = 1
           /\ enum.headers = <<>>
           /\ enum.printed.lines = <<>>
           /\ enum.printed.service = ""

\* the TLS handshake on port 8443 has failed
C16_Witness ==
    /\ enum.pc = "failed"
    /\ enum.port = 8443
    /\ enum.calls = <<"https_head">>
    /\ enum.printed.note = "[!] Connection failed: wrap_socket"

\* C17: under fair scheduling every probe eventually has its outcome and
\* run_scan eventually returns, whatever the peers do.
C17_ScanReturns ==
    <>(scan = "returned" /\ \A i \in Tasks : pc[i] = "done")

C19_ClosedBeforeReturn ==
    \A i \in Returned : conn[i] = "ok" => closed[i]

\* the outcome of probe i as its own port and its own peer determine it: how
\* the connect ended, whether the port has a name, what the peer did at the
\* drain and at the close, and the text it sent
OwnOutcome(i) ==
    LET p == ports[i]
        refused(status) == [port |-> p, status |-> status, service |-> None, banner |-> None]
    IN  IF conn[i] = TimeoutError THEN refused("filtered")
        ELSE IF conn[i] # "ok" THEN refused("closed")
        ELSE IF p < 1024 /\ getservbyport(p) = NoEntry THEN refused("closed")
        ELSE IF peer[i].drain = OSError THEN refused("closed")
        ELSE IF peer[i].close = TimeoutError THEN refused("filtered")
        ELSE IF peer[i].close # "ok" THEN refused("closed")
        ELSE [port |-> p, status |-> "open",
              service |-> IF getservbyport(p) = NoEntry THEN None ELSE getservbyport(p),
              banner |-> banner[i]]

\* C20: when run_scan has finished, it reports for every port whose probe
\* ran to its end the outcome that this port and its own peer determine,
\* whatever the cap, the other ports, their peers and the interleaving.
C20_OutcomeIsOwn ==
    scan \in {"returned", "raised"} =>
        \A i \in Tasks :
            pc[i] = "done" => \E k \in 1..Len(out) : out[k] = OwnOutcome(i)

====
